---- MODULE Spec2Model ----
(***************************************************************************)
(* The memoized vertex pipeline of src/features/machine/selectors.js:      *)
(* the LRU vertex cache, the selector registry (getCachedSelector), the    *)
(* per-layer raw / transformed / computed selectors with reselect's two    *)
(* levels of reference-equality memoization, and the aggregate views.      *)
(*                                                                         *)
(* Representation.                                                         *)
(*  - A JavaScript object identity is a field `ref`: two model values are  *)
(*    equal exactly when they denote the same object, so reselect's `===`  *)
(*    is model equality.  An identity names its maker and the maker's run  *)
(*    that made it: [by, id, n].                                           *)
(*  - A vertex is a record [x, y] on an integer grid.  A vertex array is   *)
(*    held run-length encoded: a sequence of runs [x, y, n], n >= 1 equal  *)
(*    consecutive vertices, no two adjacent runs with the same vertex.     *)
(*    The encoding is canonical, so equal arrays have equal encodings, and *)
(*    it lets an array be as long as the cache budget (500000).            *)
(*  - null / undefined is the record Null.                                 *)
(***************************************************************************)
EXTENDS Integers, Sequences, FiniteSets, TLC

\* ------------------------------------------------------------------ bounds
\* how many store mutations (edits of the snapshot) a behaviour makes
MaxEdits == 3
\* length of the vertex array the large cacheable shape generates
FractalLen == 300000
\* fixed-point scale of a square root: lengths are kept in 1/DistanceScale
DistanceScale == 1000
\* the largest root of a 32-bit integer
SqrtMax == 46340

\* ------------------------------------------------------- program constants
\* LRUCache({ max: 500000 })
CacheMax == 500000

Null == [null |-> TRUE]
NoId == "none"
LayerIds == {"A", "B", "C", "E"}

VARIABLES
  state,            \* the store snapshot handed to every selector
  cache,            \* the LRU cache: entries [key, value], most recent first
  cachedSelectors,  \* fn.name -> layerId -> selector (with its memo)
  aggregate,        \* the memo of the three module-level aggregate selectors
  edits,            \* how many edits were made
  hist,             \* the most recent edit, and the snapshot it replaced
  genCalls,         \* per cache key, how often the shape generator ran for it
  last              \* the most recent selector call: what it returned and ran

vars == <<state, cache, cachedSelectors, aggregate, edits, hist, genCalls, last>>

\* --------------------------------------------------------- vertex arrays
V(x, y) == [x |-> x, y |-> y]
Run(v, n) == [x |-> v.x, y |-> v.y, n |-> n]
RunVertex(r) == V(r.x, r.y)

RECURSIVE VLen(_)
\* array.length
VLen(rs) == IF rs = <<>> THEN 0 ELSE rs[1].n + VLen(Tail(rs))

\* array.push of n copies of one vertex, keeping the encoding canonical
VPush(rs, r) ==
  IF r.n = 0 THEN rs
  ELSE IF rs # <<>> /\ RunVertex(rs[Len(rs)]) = RunVertex(r)
       THEN [rs EXCEPT ![Len(rs)].n = @ + r.n]
       ELSE Append(rs, r)

RECURSIVE VConcat(_, _)
\* a.concat(b)
VConcat(a, b) == IF b = <<>> THEN a ELSE VConcat(VPush(a, b[1]), Tail(b))

RECURSIVE FromSeq(_)
\* the encoding of an explicit array of vertices
FromSeq(s) == IF s = <<>> THEN <<>> ELSE VConcat(<<Run(s[1], 1)>>, FromSeq(Tail(s)))

\* array[0]; undefined for the empty array
VFirst(rs) == IF rs = <<>> THEN Null ELSE RunVertex(rs[1])
\* array[array.length - 1]
VLast(rs) == IF rs = <<>> THEN Null ELSE RunVertex(rs[Len(rs)])

RECURSIVE VAt(_, _)
\* array[i], 0-based; undefined out of range
VAt(rs, i) ==
  IF rs = <<>> \/ i < 0 THEN Null
  ELSE IF i < rs[1].n THEN RunVertex(rs[1]) ELSE VAt(Tail(rs), i - rs[1].n)

RECURSIVE VFlat(_)
\* arrays.flat(): one array out of a sequence of arrays
VFlat(ls) == IF ls = <<>> THEN <<>> ELSE VConcat(ls[1], VFlat(Tail(ls)))

\* an object identity: the n-th object made by `by` for `id`
Ref(by, id, n) == [by |-> by, id |-> id, n |-> n]
\* a new array object with the given content
NewArray(ref, rs) == [ref |-> ref, v |-> rs]

\* ------------------------------------------- the store snapshot's values
\* models/shapes: per shape type, whether its raw vertices are cached and
\* whether they depend on the machine (copied into the layer on creation)
ShapeTypes == {"polygon", "point", "wiper", "fractal"}
shouldCacheOf(type) == type \in {"polygon", "wiper", "fractal"}
usesMachineOf(type) == type = "wiper"

\* layer.connectionMethod as the store may hold it
ConnectionMethods == {"none", "along perimeter", "along-perimeter"}

\* circular: the layer object holds a reference to itself, which JSON.stringify
\* cannot serialize
NewLayer(ref, id, type) ==
  [ref |-> ref, id |-> id, type |-> type,
   shouldCache |-> shouldCacheOf(type), usesMachine |-> usesMachineOf(type),
   dragging |-> FALSE, effect |-> FALSE, connectionMethod |-> "none", offsetX |-> 0,
   circular |-> FALSE]

\* the fields JSON.stringify sees: everything but the object's identity
Content(obj) == [f \in (DOMAIN obj) \ {"ref"} |-> obj[f]]

\* ------------------------------------------------ external collaborators
\* getShape(layer).getVertices(state): the shape generator, a pure function
\* of {shape, machine}
getVertices(st) ==
  CASE st.shape.type = "polygon" -> FromSeq(<<V(0, 0), V(1, 0), V(1, 1), V(0, 1)>>)
    [] st.shape.type = "point" -> FromSeq(<<V(5, 5)>>)
    [] st.shape.type = "wiper" ->
         IF st.machine = Null THEN FromSeq(<<V(0, 0)>>)
         ELSE FromSeq(<<V(0, 0), V(st.machine.size, st.machine.size)>>)
    [] OTHER -> <<Run(V(2, 2), FractalLen)>>

\* transformShapes(vertices, layer, effects): the layer's offset applied
transformShapes(vertices, layer, effects) ==
  [i \in 1..Len(vertices) |-> [vertices[i] EXCEPT !.x = @ + layer.offsetX]]

\* polishVertices(vertices, machine, {start, end}): a homing machine starts
\* the first layer and ends the last layer at the origin
polishVertices(vertices, machine, layerInfo) ==
  LET a == IF machine.homing /\ layerInfo.start
           THEN VConcat(<<Run(V(0, 0), 1)>>, vertices) ELSE vertices
  IN IF machine.homing /\ layerInfo.end THEN VPush(a, Run(V(0, 0), 1)) ELSE a

Clamp(n, lo, hi) == IF n < lo THEN lo ELSE IF n > hi THEN hi ELSE n
Min2(a, b) == IF a <= b THEN a ELSE b

\* machineInstance.nearestPerimeterVertex(p) on the square [0, size]^2
nearestPerimeterVertex(machine, p) ==
  LET s == machine.size
      cx == Clamp(p.x, 0, s)
      cy == Clamp(p.y, 0, s)
      d == Min2(Min2(cy, s - cx), Min2(s - cy, cx))
  IN IF cy = d THEN V(cx, 0)
     ELSE IF s - cx = d THEN V(s, cy)
     ELSE IF s - cy = d THEN V(cx, s)
     ELSE V(0, cy)

\* position of a perimeter point along the perimeter, from the origin
PerimeterPos(machine, p) ==
  LET s == machine.size
  IN IF p.y = 0 THEN p.x
     ELSE IF p.x = s THEN s + p.y
     ELSE IF p.y = s THEN 2 * s + (s - p.x)
     ELSE 3 * s + (s - p.y)

\* machineInstance.tracePerimeter(a, b): the corners passed between a and b
tracePerimeter(machine, a, b) ==
  LET s == machine.size
      ta == PerimeterPos(machine, a)
      tb == PerimeterPos(machine, b)
      corners == <<V(s, 0), V(s, s), V(0, s)>>
      up == SelectSeq(corners, LAMBDA c : ta < PerimeterPos(machine, c) /\ PerimeterPos(machine, c) < tb)
      down == SelectSeq(corners, LAMBDA c : tb < PerimeterPos(machine, c) /\ PerimeterPos(machine, c) < ta)
  IN IF ta <= tb THEN up ELSE [i \in 1..Len(down) |-> down[Len(down) + 1 - i]]

\* ---------------------------------------------------- layers/selectors
getState(st) == st
getMachine(st) == st.machine
getPreview(st) == st.preview
\* the layer mapping of the snapshot, an object of its own
getLayersById(st) == st.layers
\* layers[layerId]
LayerOf(layers, layerId) == layers.map[layerId]
makeGetLayer(st, layerId) == LayerOf(getLayersById(st), layerId)
\* the resolved effect list of a layer, re-made when the layer changes
makeGetEffects(st, layerId) ==
  LET layer == makeGetLayer(st, layerId)
  IN [ref |-> layer.ref, effects |-> IF layer.effect THEN <<"effect">> ELSE <<>>]
\* The visible order.  The nested lookup of the computed stage passes a
\* rebuilt {layers, machine}; position, successor and count are resolved in
\* the visible order of the snapshot under evaluation there too.
getVisibleLayerIds(st) == state.visibleLayerOrder
getNumVisibleLayers(st) == Len(getVisibleLayerIds(st))
IndexOf(seq, e) == IF \E i \in 1..Len(seq) : seq[i] = e
                   THEN (CHOOSE i \in 1..Len(seq) : seq[i] = e) - 1 ELSE -1
makeGetLayerIndex(st, layerId) == IndexOf(getVisibleLayerIds(st), layerId)
\* a successor that skips one layer of the visible order
makeGetNextLayerIdSkipping(st, layerId) ==
  LET ids == getVisibleLayerIds(st)
      i == IndexOf(ids, layerId)
  IN IF i >= 0 /\ i + 3 <= Len(ids) THEN ids[i + 3] ELSE NoId

makeGetNextLayerId(st, layerId) ==
  LET ids == getVisibleLayerIds(st)
      i == IndexOf(ids, layerId)
  IN IF i >= 0 /\ i + 2 <= Len(ids) THEN ids[i + 2] ELSE NoId

\* ------------------------------------------------------------ the cache
RECURSIVE CacheLength(_)
\* the cache's length: the sum of n.length over its entries
CacheLength(c) == IF c = <<>> THEN 0 ELSE VLen(c[1].value.v) + CacheLength(Tail(c))

CacheHas(c, key) == \E i \in 1..Len(c) : c[i].key = key
CachePos(c, key) == CHOOSE i \in 1..Len(c) : c[i].key = key
CacheDel(c, key) == SelectSeq(c, LAMBDA e : e.key # key)

\* a cache that never evicts
CacheTrimNone(c) == c

RECURSIVE CacheTrim(_)
\* drop least recently used entries while the length exceeds max
CacheTrim(c) ==
  IF c # <<>> /\ CacheLength(c) > CacheMax THEN CacheTrim(SubSeq(c, 1, Len(c) - 1)) ELSE c

\* a read that leaves the recency order alone
CacheGetPeek(c, key) ==
  IF CacheHas(c, key)
  THEN [cache |-> c, value |-> c[CachePos(c, key)].value]
  ELSE [cache |-> c, value |-> Null]

\* cache.get(key): the value, which becomes the most recently used; else undefined
CacheGet(c, key) ==
  IF CacheHas(c, key)
  THEN LET e == c[CachePos(c, key)]
       IN [cache |-> <<e>> \o CacheDel(c, key), value |-> e.value]
  ELSE [cache |-> c, value |-> Null]

\* cache.set(key, value): a value longer than max is not stored (and unseats
\* an older value of its key); else it becomes the most recently used entry
CacheSet(c, key, value) ==
  IF VLen(value.v) > CacheMax THEN CacheDel(c, key)
  ELSE CacheTrim(<<[key |-> key, value |-> value]>> \o CacheDel(c, key))

\* JSON.stringify(state): the content of {shape, machine}, identities dropped
getCacheKey(st) ==
  [shape |-> Content(st.shape),
   machine |-> IF st.machine = Null THEN Null ELSE Content(st.machine)]

\* ------------------------------------------------------------ exceptions
\* a thrown exception, propagating to the caller of the selector
TypeError == [error |-> "TypeError"]
\* what a selector call gives: the pipeline afterwards and the value returned,
\* or err and the exception thrown
Return(P, v) == [p |-> P, v |-> v, err |-> FALSE, connected |-> <<>>]
Throw(P, e) == [p |-> P, v |-> e, err |-> TRUE, connected |-> <<>>]

\* ---------------------------------------------------------- the registry
\* The pipeline's mutable state while one call runs:
\*   cache, sel (cachedSelectors), agg (aggregate),
\*   gen: the keys the shape generator was invoked for, in order,
\*   ran: the result functions that ran to completion, in order.
Fns == {"makeGetLayer", "makeGetLayerMachine", "makeGetEffects", "makeGetLayerIndex",
        "makeGetNextLayerId", "makeGetLayerVertices", "makeGetTransformedVertices",
        "makeGetComputedVertices", "makeGetPreviewVertices"}
StageFns == {"makeGetLayerVertices", "makeGetTransformedVertices", "makeGetComputedVertices"}

\* the selectors fn(layerId) asks the registry for while it builds its own
InputSelectors(fn) ==
  CASE fn = "makeGetLayerVertices" -> <<"makeGetLayer", "makeGetLayerMachine">>
    [] fn = "makeGetTransformedVertices" ->
         <<"makeGetLayerVertices", "makeGetLayer", "makeGetEffects">>
    [] fn = "makeGetComputedVertices" ->
         <<"makeGetTransformedVertices", "makeGetLayerIndex", "makeGetNextLayerId">>
    [] fn = "makeGetPreviewVertices" ->
         <<"makeGetTransformedVertices", "makeGetComputedVertices">>
    [] OTHER -> <<>>

\* createSelector(...): a new selector, never called (no last arguments);
\* inst tells the selector objects made for one (fn, layerId) apart, runs
\* counts the entries into its result function
NewSelector(inst) == [inst |-> inst, state |-> Null, args |-> Null, result |-> Null, runs |-> 0]

HasSelector(sel, fn, layerId) == fn \in DOMAIN sel /\ layerId \in DOMAIN sel[fn]

RECURSIVE getCachedSelector(_, _, _), CreateInputs(_, _, _)
CreateInputs(P, fns, layerId) ==
  IF fns = <<>> THEN P
  ELSE CreateInputs(getCachedSelector(P, Head(fns), layerId), Tail(fns), layerId)

\* a registry that makes a new selector at every request
getCachedSelectorFresh(P, fn, layerId) ==
  LET P0 == IF fn \in DOMAIN P.sel THEN P
            ELSE [P EXCEPT !.sel = @ @@ (fn :> <<>>)]
      P1 == CreateInputs(P0, InputSelectors(fn), layerId)
      made == IF layerId \in DOMAIN P0.sel[fn] THEN P0.sel[fn][layerId].inst + 1 ELSE 1
  IN [P1 EXCEPT !.sel = [@ EXCEPT ![fn] =
        [l \in DOMAIN P1.sel[fn] \cup {layerId} |->
           IF l = layerId THEN NewSelector(made) ELSE P1.sel[fn][l]]]]

\* getCachedSelector(fn, layerId): the pipeline afterwards; the selector
\* returned is sel[fn][layerId] of it
getCachedSelector(P, fn, layerId) ==
  LET P0 == IF fn \in DOMAIN P.sel THEN P
            ELSE [P EXCEPT !.sel = @ @@ (fn :> <<>>)]
  IN IF layerId \in DOMAIN P0.sel[fn] THEN P0
     ELSE LET P1 == CreateInputs(P0, InputSelectors(fn), layerId)
          IN [P1 EXCEPT !.sel = [@ EXCEPT ![fn] = P1.sel[fn] @@ (layerId :> NewSelector(1))]]

\* reselect's memo of one selector: the last state argument (outer memo)
\* and the last input values and result (inner memo)
Remember(P, fn, layerId, stRef, args, result) ==
  [P EXCEPT !.sel = [@ EXCEPT ![fn] = [@ EXCEPT ![layerId] =
     [@ EXCEPT !.state = stRef, !.args = args, !.result = result]]]]
\* the inputs are the last ones: only the state argument is replaced
SameInputs(P, fn, layerId, stRef) ==
  [P EXCEPT !.sel = [@ EXCEPT ![fn] = [@ EXCEPT ![layerId] = [@ EXCEPT !.state = stRef]]]]
\* the result function is entered
Enter(P, fn, layerId) ==
  [P EXCEPT !.sel = [@ EXCEPT ![fn] = [@ EXCEPT ![layerId] = [@ EXCEPT !.runs = @ + 1]]]]
\* the result function is left by an exception: the run made no object, and
\* its number names the next run
Leave(P, fn, layerId) ==
  [P EXCEPT !.sel = [@ EXCEPT ![fn] = [@ EXCEPT ![layerId] = [@ EXCEPT !.runs = @ - 1]]]]
Ran(P, fn, layerId, args, result, connected) ==
  [P EXCEPT !.ran = Append(@, [fn |-> fn, layerId |-> layerId, args |-> args,
                               result |-> result, connected |-> connected])]

\* ------------------------------------------------------------ the stages
\* Each selector made by createSelector is three operators: the selector
\* itself (reselect's outer memo on the state argument, and the input
\* selectors), <name>Inputs (the memoized result function: reselect's inner
\* memo on the input values) and <name>Body (the result function).

\* the result function returned b for inputs args: the selector remembers
Computed(b, fn, layerId, stRef, args) ==
  IF b.err THEN Throw(Leave(b.p, fn, layerId), b.v)
  ELSE Return(Remember(Ran(b.p, fn, layerId, args, b.v, b.connected),
                       fn, layerId, stRef, args, b.v),
              b.v)

\* a machine input that does not look at the shape's usesMachine
makeGetLayerMachineAlways(st, layerId) == getMachine(st)

makeGetLayerMachine(st, layerId) ==
  IF LayerOf(getLayersById(st), layerId).usesMachine THEN getMachine(st) ELSE Null

\* vertices = metashape.getVertices(state)
Generated(P, key, vertices) == Return([P EXCEPT !.gen = Append(@, key)], vertices)

\* a raw stage that generates whatever the cache holds
CachedVerticesRegenerated(P, got, key, vertices) ==
  Generated([P EXCEPT !.cache = CacheSet(got.cache, key, vertices)], key, vertices)

\* let vertices = cache.get(key); if (!vertices) { generate; cache.set(key, vertices) }
CachedVertices(P, got, key, vertices) ==
  IF got.value = Null
  THEN Generated([P EXCEPT !.cache = CacheSet(got.cache, key, vertices)], key, vertices)
  ELSE Return([P EXCEPT !.cache = got.cache], got.value)

\* JSON.stringify(state) returns: it throws a TypeError on a circular structure
Serializable(st) == ~st.shape.circular

\* a raw stage that caches the vertices of every layer
LayerVerticesOfCached(P, ref, st) ==
  CachedVertices(P, CacheGet(P.cache, getCacheKey(st)), getCacheKey(st),
                 NewArray(ref, getVertices(st)))

\* the result function of makeGetLayerVertices on state = {shape, machine};
\* ref: the identity of the array a generator call makes
LayerVerticesOf(P, ref, st) ==
  IF st.shape.shouldCache
  THEN IF Serializable(st)
       THEN CachedVertices(P, CacheGet(P.cache, getCacheKey(st)), getCacheKey(st),
                           NewArray(ref, getVertices(st)))
       ELSE Throw(P, TypeError)
  ELSE IF ~st.shape.dragging /\ st.shape.effect
       THEN Return(P, NewArray(ref, <<>>))
       ELSE Generated(P, getCacheKey(st), NewArray(ref, getVertices(st)))

LayerVerticesBody(P, ref, layer, machine) ==
  LayerVerticesOf(P, ref, [shape |-> layer, machine |-> machine])

LayerVerticesInputs(P, sel, layerId, st, args) ==
  IF sel.args = args
  THEN Return(SameInputs(P, "makeGetLayerVertices", layerId, st.ref), sel.result)
  ELSE Computed(LayerVerticesBody(Enter(P, "makeGetLayerVertices", layerId),
                                  Ref("makeGetLayerVertices", layerId, sel.runs + 1),
                                  args.layer, args.machine),
                "makeGetLayerVertices", layerId, st.ref, args)

\* getCachedSelector(makeGetLayerVertices, layerId)(st), the selector existing
makeGetLayerVertices(P, layerId, st) ==
  IF P.sel["makeGetLayerVertices"][layerId].state = st.ref
  THEN Return(P, P.sel["makeGetLayerVertices"][layerId].result)
  ELSE LayerVerticesInputs(P, P.sel["makeGetLayerVertices"][layerId], layerId, st,
                           [layer |-> makeGetLayer(st, layerId),
                            machine |-> makeGetLayerMachine(st, layerId)])

\* the result function of makeGetTransformedVertices
TransformedVerticesBody(P, ref, vertices, layer, effects) ==
  Return(P, NewArray(ref, transformShapes(vertices.v, layer, effects)))

TransformedVerticesInputs(P, sel, layerId, st, args) ==
  IF sel.args = args
  THEN Return(SameInputs(P, "makeGetTransformedVertices", layerId, st.ref), sel.result)
  ELSE Computed(TransformedVerticesBody(Enter(P, "makeGetTransformedVertices", layerId),
                                        Ref("makeGetTransformedVertices", layerId, sel.runs + 1),
                                        args.vertices, args.layer, args.effects),
                "makeGetTransformedVertices", layerId, st.ref, args)

\* the input selectors returned: r from makeGetLayerVertices
TransformedVerticesOf(r, sel, layerId, st) ==
  IF r.err THEN r
  ELSE TransformedVerticesInputs(r.p, sel, layerId, st,
                                 [vertices |-> r.v, layer |-> makeGetLayer(st, layerId),
                                  effects |-> makeGetEffects(st, layerId)])

\* getCachedSelector(makeGetTransformedVertices, layerId)(st)
makeGetTransformedVertices(P, layerId, st) ==
  IF P.sel["makeGetTransformedVertices"][layerId].state = st.ref
  THEN Return(P, P.sel["makeGetTransformedVertices"][layerId].result)
  ELSE TransformedVerticesOf(makeGetLayerVertices(P, layerId, st),
                             P.sel["makeGetTransformedVertices"][layerId], layerId, st)

\* the bridge of the perimeter branch:
\* [startPerimeter, tracePerimeter(...), endPerimeter, end].flat()
PerimeterBridge(machine, startPerimeter, endPerimeter, end) ==
  FromSeq(<<startPerimeter>> \o tracePerimeter(machine, startPerimeter, endPerimeter)
          \o <<endPerimeter, end>>)

\* a comparison with the hyphenated name
IsAlongPerimeterHyphen(layer) == layer.connectionMethod = "along-perimeter"

\* layer.connectionMethod === 'along perimeter'
IsAlongPerimeter(layer) == layer.connectionMethod = "along perimeter"

\* a connection that appends the next layer's whole path
ConnectWhole(vertices, layer, machine, nextVertices) ==
  IF IsAlongPerimeter(layer)
  THEN VConcat(vertices,
               PerimeterBridge(machine, nearestPerimeterVertex(machine, VLast(vertices)),
                               nearestPerimeterVertex(machine, VFirst(nextVertices)),
                               VFirst(nextVertices)))
  ELSE VConcat(vertices, nextVertices)

\* vertices with the connection to the next layer's first vertex appended
Connect(vertices, layer, machine, nextVertices) ==
  IF IsAlongPerimeter(layer)
  THEN VConcat(vertices,
               PerimeterBridge(machine, nearestPerimeterVertex(machine, VLast(vertices)),
                               nearestPerimeterVertex(machine, VFirst(nextVertices)),
                               VFirst(nextVertices)))
  ELSE VPush(vertices, Run(VFirst(nextVertices), 1))

\* the perimeter branch reads the coordinates of vertices[vertices.length - 1],
\* which is undefined for a layer without vertices
ConnectThrows(vertices, layer) == IsAlongPerimeter(layer) /\ VLast(vertices) = Null

\* a next layer that is connected to while it is dragged
HasNextLayerDragged(layers, nextLayerId) ==
  /\ nextLayerId # NoId
  /\ nextLayerId \in DOMAIN layers.map

\* nextLayer = nextLayerId && layers[nextLayerId]; nextLayer && !nextLayer.dragging
HasNextLayer(layers, nextLayerId) ==
  /\ nextLayerId # NoId
  /\ nextLayerId \in DOMAIN layers.map
  /\ ~LayerOf(layers, nextLayerId).dragging

\* polishVertices(vertices, machine, {start: layerIndex === 0, end: ...})
Polished(vertices, a) ==
  polishVertices(vertices, a.machine,
                 [start |-> a.layerIndex = 0, end |-> a.layerIndex = a.numLayers - 1])

\* the computed vertices returned, and the vertices handed to polishVertices
ReturnPolished(P, ref, connected, a) ==
  [p |-> P, v |-> NewArray(ref, Polished(connected, a)), err |-> FALSE,
   connected |-> connected]

\* the rest of the result function, the next layer's selector having returned n
ConnectedTo(n, ref, layer, a) ==
  IF n.err THEN n
  ELSE IF VFirst(n.v.v) = Null THEN ReturnPolished(n.p, ref, a.vertices.v, a)
  ELSE IF ConnectThrows(a.vertices.v, layer) THEN Throw(n.p, TypeError)
  ELSE ReturnPolished(n.p, ref, Connect(a.vertices.v, layer, a.machine, n.v.v), a)

RECURSIVE makeGetComputedVertices(_, _, _)
\* the result function of makeGetComputedVertices(layerId), a its inputs,
\* ref the identity of its run
ComputedVerticesBody(P, ref, layerId, a) ==
  IF a.layerIndex < a.numLayers - 1 /\ HasNextLayer(a.layers, a.nextLayerId)
  THEN ConnectedTo(makeGetComputedVertices(
                     getCachedSelector(P, "makeGetComputedVertices", a.nextLayerId),
                     a.nextLayerId,
                     [ref |-> Ref("state", layerId, ref.n), layers |-> a.layers,
                      machine |-> a.machine]),
                   ref, LayerOf(a.layers, layerId), a)
  ELSE ReturnPolished(P, ref, a.vertices.v, a)

\* a computed stage that forgets its inputs
ComputedVerticesInputsAlways(P, sel, layerId, st, args) ==
  Computed(ComputedVerticesBody(Enter(P, "makeGetComputedVertices", layerId),
                                Ref("makeGetComputedVertices", layerId, sel.runs + 1),
                                layerId, args),
           "makeGetComputedVertices", layerId, st.ref, args)

ComputedVerticesInputs(P, sel, layerId, st, args) ==
  IF sel.args = args
  THEN Return(SameInputs(P, "makeGetComputedVertices", layerId, st.ref), sel.result)
  ELSE Computed(ComputedVerticesBody(Enter(P, "makeGetComputedVertices", layerId),
                                     Ref("makeGetComputedVertices", layerId, sel.runs + 1),
                                     layerId, args),
                "makeGetComputedVertices", layerId, st.ref, args)

\* the input selectors returned: r from makeGetTransformedVertices
ComputedVerticesOf(r, sel, layerId, st) ==
  IF r.err THEN r
  ELSE ComputedVerticesInputs(r.p, sel, layerId, st,
                              [vertices |-> r.v,
                               layerIndex |-> makeGetLayerIndex(st, layerId),
                               nextLayerId |-> makeGetNextLayerId(st, layerId),
                               numLayers |-> getNumVisibleLayers(st),
                               layers |-> getLayersById(st),
                               machine |-> getMachine(st)])

\* getCachedSelector(makeGetComputedVertices, layerId)(st)
makeGetComputedVertices(P, layerId, st) ==
  IF P.sel["makeGetComputedVertices"][layerId].state = st.ref
  THEN Return(P, P.sel["makeGetComputedVertices"][layerId].result)
  ELSE ComputedVerticesOf(makeGetTransformedVertices(P, layerId, st),
                          P.sel["makeGetComputedVertices"][layerId], layerId, st)

\* offset(rotate(offset(vertex, -layer.offsetX, -layer.offsetY), layer.rotation), dx, -dy):
\* the layer's offset taken back
previewShape(vertices, layer) ==
  [i \in 1..Len(vertices) |-> [vertices[i] EXCEPT !.x = @ - layer.offsetX]]

\* the result function of makeGetPreviewVertices(layerId)
PreviewVerticesBody(P, ref, a, layerId) ==
  Return(P, NewArray(ref, previewShape(IF LayerOf(a.layers, layerId).dragging
                                       THEN a.transformedVertices.v
                                       ELSE a.computedVertices.v,
                                       LayerOf(a.layers, layerId))))

PreviewVerticesInputs(P, sel, layerId, st, args) ==
  IF sel.args = args
  THEN Return(SameInputs(P, "makeGetPreviewVertices", layerId, st.ref), sel.result)
  ELSE Computed(PreviewVerticesBody(Enter(P, "makeGetPreviewVertices", layerId),
                                    Ref("makeGetPreviewVertices", layerId, sel.runs + 1),
                                    args, layerId),
                "makeGetPreviewVertices", layerId, st.ref, args)

\* the input selectors returned: t from makeGetTransformedVertices, then c
\* from makeGetComputedVertices
PreviewVerticesOf(t, c, sel, layerId, st) ==
  IF c.err THEN c
  ELSE PreviewVerticesInputs(c.p, sel, layerId, st,
                             [layers |-> getLayersById(st), machine |-> getMachine(st),
                              transformedVertices |-> t.v, computedVertices |-> c.v])

PreviewVerticesAfter(t, sel, layerId, st) ==
  IF t.err THEN t
  ELSE PreviewVerticesOf(t, makeGetComputedVertices(t.p, layerId, st), sel, layerId, st)

\* getCachedSelector(makeGetPreviewVertices, layerId)(st)
makeGetPreviewVertices(P, layerId, st) ==
  IF P.sel["makeGetPreviewVertices"][layerId].state = st.ref
  THEN Return(P, P.sel["makeGetPreviewVertices"][layerId].result)
  ELSE PreviewVerticesAfter(makeGetTransformedVertices(P, layerId, st),
                            P.sel["makeGetPreviewVertices"][layerId], layerId, st)

\* ------------------------------------------------------ aggregate views
\* the memo of a module-level selector
RememberView(P, name, stRef, args, result) ==
  [P EXCEPT !.agg = [@ EXCEPT ![name] =
     [@ EXCEPT !.state = stRef, !.args = args, !.result = result]]]
SameViewInputs(P, name, stRef) ==
  [P EXCEPT !.agg = [@ EXCEPT ![name] = [@ EXCEPT !.state = stRef]]]
EnterView(P, name) == [P EXCEPT !.agg = [@ EXCEPT ![name] = [@ EXCEPT !.runs = @ + 1]]]
LeaveView(P, name) == [P EXCEPT !.agg = [@ EXCEPT ![name] = [@ EXCEPT !.runs = @ - 1]]]
ComputedView(b, name, stRef, args) ==
  IF b.err THEN Throw(LeaveView(b.p, name), b.v) ELSE Return(RememberView(b.p, name, stRef, args, b.v), b.v)

\* a map that collects the arrays in reverse
ConsComputedReversed(r, rest) ==
  IF r.err THEN r ELSE IF rest.err THEN rest ELSE Return(rest.p, rest.v \o <<r.v.v>>)

RECURSIVE MapComputedVertices(_, _, _)
\* r is the first layer's array, rest the map over the others
ConsComputed(r, rest) ==
  IF r.err THEN r ELSE IF rest.err THEN rest ELSE Return(rest.p, <<r.v.v>> \o rest.v)
MapRest(r, ids, st) == ConsComputed(r, MapComputedVertices(r.p, ids, st))

\* visibleLayerIds.map(id => getCachedSelector(makeGetComputedVertices, id)(state)):
\* the arrays' contents, in order
MapComputedVertices(P, ids, st) ==
  IF ids = <<>> THEN Return(P, <<>>)
  ELSE MapRest(makeGetComputedVertices(
                 getCachedSelector(P, "makeGetComputedVertices", Head(ids)), Head(ids), st),
               Tail(ids), st)

\* the result function of getAllComputedVertices: m the mapped arrays
AllComputedVerticesBody(m, ref) ==
  IF m.err THEN m ELSE Return(m.p, NewArray(ref, VFlat(m.v)))

AllComputedVerticesInputs(P, sel, st, args) ==
  IF sel.args = args
  THEN Return(SameViewInputs(P, "getAllComputedVertices", st.ref), sel.result)
  ELSE ComputedView(
         AllComputedVerticesBody(
           MapComputedVertices(EnterView(P, "getAllComputedVertices"), args.visibleLayerIds, st),
           Ref("getAllComputedVertices", "", sel.runs + 1)),
         "getAllComputedVertices", st.ref, args)

\* getAllComputedVertices(st)
getAllComputedVertices(P, st) ==
  IF P.agg["getAllComputedVertices"].state = st.ref
  THEN Return(P, P.agg["getAllComputedVertices"].result)
  ELSE AllComputedVerticesInputs(P, P.agg["getAllComputedVertices"], st,
         [state |-> getState(st).ref, visibleLayerIds |-> getVisibleLayerIds(st)])

RECURSIVE OffsetsFromDense(_, _)
\* offsets that count the vertices only
OffsetsFromDense(arrays, offset) ==
  IF arrays = <<>> THEN <<>>
  ELSE <<offset>> \o OffsetsFromDense(Tail(arrays), offset + VLen(Head(arrays)))

RECURSIVE OffsetsFrom(_, _)
\* the forEach of getVertexOffsets over the layers' vertex arrays, from offset
OffsetsFrom(arrays, offset) ==
  IF arrays = <<>> THEN <<>>
  ELSE <<offset>> \o OffsetsFrom(Tail(arrays), offset + VLen(Head(arrays)) + 1)

\* offsets[id], for the ids of the visible order
OffsetsById(ids, offs) ==
  [id \in {ids[i] : i \in 1..Len(ids)} |-> offs[IndexOf(ids, id) + 1]]

\* the result function of getVertexOffsets: m the layers' computed vertices
VertexOffsetsBody(m, ref, ids) ==
  IF m.err THEN m
  ELSE Return(m.p, [ref |-> ref, offsets |-> OffsetsById(ids, OffsetsFrom(m.v, 0))])

VertexOffsetsInputs(P, sel, st, args) ==
  IF sel.args = args
  THEN Return(SameViewInputs(P, "getVertexOffsets", st.ref), sel.result)
  ELSE ComputedView(
         VertexOffsetsBody(
           MapComputedVertices(EnterView(P, "getVertexOffsets"), args.visibleLayerIds, st),
           Ref("getVertexOffsets", "", sel.runs + 1), args.visibleLayerIds),
         "getVertexOffsets", st.ref, args)

\* getVertexOffsets(st)
getVertexOffsets(P, st) ==
  IF P.agg["getVertexOffsets"].state = st.ref
  THEN Return(P, P.agg["getVertexOffsets"].result)
  ELSE VertexOffsetsInputs(P, P.agg["getVertexOffsets"], st,
         [state |-> getState(st).ref, visibleLayerIds |-> getVisibleLayerIds(st)])

RECURSIVE SqrtBetween(_, _, _)
\* the largest r in lo..hi with r * r <= m
SqrtBetween(m, lo, hi) ==
  IF lo >= hi THEN lo
  ELSE IF ((lo + hi + 1) \div 2) * ((lo + hi + 1) \div 2) <= m
       THEN SqrtBetween(m, (lo + hi + 1) \div 2, hi)
       ELSE SqrtBetween(m, lo, (lo + hi + 1) \div 2 - 1)

\* a distance without the square root
HypotSquared(a, b) ==
  ((a.x - b.x) * (a.x - b.x) + (a.y - b.y) * (a.y - b.y)) * DistanceScale

\* Math.sqrt(Math.pow(dx, 2.0) + Math.pow(dy, 2.0)), in 1/DistanceScale
Hypot(a, b) ==
  SqrtBetween(((a.x - b.x) * (a.x - b.x) + (a.y - b.y) * (a.y - b.y))
                * DistanceScale * DistanceScale,
              0, SqrtMax)

RECURSIVE PathLength(_)
\* the forEach of getVerticesStats: the sum over consecutive vertices
PathLength(vertices) ==
  IF Len(vertices) < 2 THEN 0
  ELSE Hypot(RunVertex(vertices[1]), RunVertex(vertices[2])) + PathLength(Tail(vertices))

\* the result function of getVerticesStats
VerticesStatsBody(P, ref, vertices) ==
  Return(P, [ref |-> ref, numPoints |-> VLen(vertices.v),
             distance |-> PathLength(vertices.v) \div DistanceScale])

VerticesStatsInputs(P, sel, st, args) ==
  IF sel.args = args
  THEN Return(SameViewInputs(P, "getVerticesStats", st.ref), sel.result)
  ELSE ComputedView(VerticesStatsBody(EnterView(P, "getVerticesStats"),
                                      Ref("getVerticesStats", "", sel.runs + 1), args.vertices),
                    "getVerticesStats", st.ref, args)

VerticesStatsOf(r, sel, st) ==
  IF r.err THEN r ELSE VerticesStatsInputs(r.p, sel, st, [vertices |-> r.v])

\* getVerticesStats(st)
getVerticesStats(P, st) ==
  IF P.agg["getVerticesStats"].state = st.ref
  THEN Return(P, P.agg["getVerticesStats"].result)
  ELSE VerticesStatsOf(getAllComputedVertices(P, st), P.agg["getVerticesStats"], st)

RECURSIVE MapPreviewVertices(_, _, _)
MapPreviewRest(r, ids, st) == ConsComputed(r, MapPreviewVertices(r.p, ids, st))

\* visibleLayerIds.map(id => getCachedSelector(makeGetPreviewVertices, id)(state))
MapPreviewVertices(P, ids, st) ==
  IF ids = <<>> THEN Return(P, <<>>)
  ELSE MapPreviewRest(makeGetPreviewVertices(
                        getCachedSelector(P, "makeGetPreviewVertices", Head(ids)), Head(ids), st),
                      Tail(ids), st)

AllPreviewVerticesInputs(P, sel, st, args) ==
  IF sel.args = args
  THEN Return(SameViewInputs(P, "getAllPreviewVertices", st.ref), sel.result)
  ELSE ComputedView(
         AllComputedVerticesBody(
           MapPreviewVertices(EnterView(P, "getAllPreviewVertices"), args.visibleLayerIds, st),
           Ref("getAllPreviewVertices", "", sel.runs + 1)),
         "getAllPreviewVertices", st.ref, args)

\* getAllPreviewVertices(st)
getAllPreviewVertices(P, st) ==
  IF P.agg["getAllPreviewVertices"].state = st.ref
  THEN Return(P, P.agg["getAllPreviewVertices"].result)
  ELSE AllPreviewVerticesInputs(P, P.agg["getAllPreviewVertices"], st,
         [state |-> getState(st).ref, visibleLayerIds |-> getVisibleLayerIds(st)])

\* getSliderBounds(vertices, sliderValue): a window of the path that starts at
\* the slider's share (in percent) of it
SliderWindow == 2
getSliderBounds(vertices, sliderValue) ==
  [start |-> (VLen(vertices) * sliderValue) \div 100,
   end |-> Min2(VLen(vertices) - 1, (VLen(vertices) * sliderValue) \div 100 + SliderWindow)]

\* start and end of the result function of getSliderColors; offsets[layerId]
\* is undefined for a layer that is not visible, and then end is NaN
SliderRange(vertices, preview, layerVertices, offsets, layerId) ==
  IF preview.sliderValue > 0 THEN getSliderBounds(vertices.v, preview.sliderValue)
  ELSE IF layerId \in DOMAIN offsets
       THEN [start |-> offsets[layerId], end |-> offsets[layerId] + VLen(layerVertices.v)]
       ELSE Null

\* Color('yellow').darken(num / den).hex(): yellow is hsl(60, 100%, 50%), and
\* darken takes the ratio off its lightness, so the red and green channels are
\* 255 * (1 - ratio), rounded, and the blue one 0; hex is the red channel, -1
\* when the ratio is NaN (den = 0: colorStep is Infinity, times 0)
Darkened(num, den) ==
  [num |-> num, den |-> den,
   hex |-> IF den = 0 THEN -1 ELSE (2 * 255 * (den - num) + den) \div (2 * den)]

\* a loop that stops before end
SliderColorsOfHalfOpen(range) ==
  IF range = Null THEN <<>>
  ELSE [i \in range.start..(range.end - 1) |->
          Darkened(3 * (range.end - i), 8 * (range.end - range.start))]

\* a gradient that darkens with the distance from start
SliderColorsOfAscending(range) ==
  IF range = Null THEN <<>>
  ELSE [i \in range.start..range.end |->
          Darkened(3 * (i - range.start), 8 * (range.end - range.start))]

\* for(let i=end; i>=start; i--) colors[i] = startColor.darken(colorStep * (end-i)).hex()
\* with colorStep = 3.0 / 8 / (end - start)
SliderColorsOf(range) ==
  IF range = Null THEN <<>>
  ELSE [i \in range.start..range.end |->
          Darkened(3 * (range.end - i), 8 * (range.end - range.start))]

\* the result function of getSliderColors(layerId)
SliderColorsBody(vertices, preview, layerVertices, offsets, layerId) ==
  [colors |-> SliderColorsOf(SliderRange(vertices, preview, layerVertices, offsets, layerId))]

\* the input selectors of getSliderColors(layerId), in order: all the preview
\* vertices, the layer's preview vertices lv, the offsets off
SliderAfterOffsets(all, lv, off, layerId, st) ==
  IF off.err THEN off
  ELSE Return(off.p, SliderColorsBody(all.v, getPreview(st), lv.v, off.v.offsets, layerId))
SliderAfterLayer(all, lv, layerId, st) ==
  IF lv.err THEN lv ELSE SliderAfterOffsets(all, lv, getVertexOffsets(lv.p, st), layerId, st)
SliderAfterAll(all, layerId, st) ==
  IF all.err THEN all
  ELSE SliderAfterLayer(all, makeGetPreviewVertices(all.p, layerId, st), layerId, st)

\* getSliderColors(layerId)(st): a selector made for the call, so that its
\* result function runs
getSliderColors(P, layerId, st) ==
  SliderAfterAll(getAllPreviewVertices(getCachedSelector(P, "makeGetPreviewVertices", layerId),
                                       st),
                 layerId, st)

\* ------------------------------------------------------------ the state
InitialLayers ==
  [ref |-> Ref("store", "layers", 0),
   map |-> [id \in LayerIds |->
              NewLayer(Ref("store", id, 0), id,
                       CASE id = "A" -> "polygon" [] id \in {"B", "E"} -> "point"
                         [] OTHER -> "wiper")]]

InitialMachine == [ref |-> Ref("store", "machine", 0), homing |-> FALSE, size |-> 4]

InitialPreview == [ref |-> Ref("store", "preview", 0), sliderValue |-> 0]

Init ==
  /\ state = [ref |-> Ref("store", "state", 0), layers |-> InitialLayers,
              machine |-> InitialMachine, visibleLayerOrder |-> <<"A", "B">>,
              preview |-> InitialPreview]
  /\ cache = <<>>
  /\ cachedSelectors = <<>>
  /\ aggregate = [name \in {"getAllComputedVertices", "getAllPreviewVertices",
                             "getVertexOffsets", "getVerticesStats"}
                    |-> NewSelector(1)]
  /\ edits = 0
  /\ hist = [edit |-> "none", layerId |-> NoId, prev |-> Null]
  /\ genCalls = <<>>
  /\ last = [op |-> "none", fn |-> "", layerId |-> NoId, err |-> FALSE, result |-> Null,
             gen |-> <<>>, ran |-> <<>>, pre |-> Null]

\* ---------------------------------------------------- the selector calls
Pipeline == [cache |-> cache, sel |-> cachedSelectors, agg |-> aggregate,
             gen |-> <<>>, ran |-> <<>>]

RECURSIVE Counted(_, _)
\* the generator's call counters after the calls for keys
Counted(counts, keys) ==
  IF keys = <<>> THEN counts
  ELSE Counted(IF Head(keys) \in DOMAIN counts
               THEN [counts EXCEPT ![Head(keys)] = @ + 1]
               ELSE counts @@ (Head(keys) :> 1),
               Tail(keys))

\* the call returned r: the pipeline is as it left it
Called(r, op, fn, layerId, pre) ==
  /\ cache' = r.p.cache
  /\ cachedSelectors' = r.p.sel
  /\ aggregate' = r.p.agg
  /\ genCalls' = Counted(genCalls, r.p.gen)
  /\ last' = [op |-> op, fn |-> fn, layerId |-> layerId, err |-> r.err, result |-> r.v,
              gen |-> r.p.gen, ran |-> r.p.ran, pre |-> pre]
  /\ UNCHANGED <<state, edits, hist>>

MemoOf(sel, fn, layerId) == IF HasSelector(sel, fn, layerId) THEN sel[fn][layerId] ELSE Null

\* getCachedSelector(fn, layerId)
Lookup(P, fn, layerId) == Return(P, P.sel[fn][layerId])
GetCachedSelector(fn, layerId) ==
  Called(Lookup(getCachedSelector(Pipeline, fn, layerId), fn, layerId),
         "getCachedSelector", fn, layerId, MemoOf(cachedSelectors, fn, layerId))

\* the stage selector fn of a layer called on st, the selector existing
CallStage(P, fn, layerId, st) ==
  CASE fn = "makeGetLayerVertices" -> makeGetLayerVertices(P, layerId, st)
    [] fn = "makeGetTransformedVertices" -> makeGetTransformedVertices(P, layerId, st)
    [] OTHER -> makeGetComputedVertices(P, layerId, st)

\* getCachedSelector(fn, layerId)(state), fn one of the three stages
Evaluate(fn, layerId) ==
  Called(CallStage(getCachedSelector(Pipeline, fn, layerId), fn, layerId, state),
         "evaluate", fn, layerId, MemoOf(cachedSelectors, fn, layerId))

GetAllComputedVertices ==
  Called(getAllComputedVertices(Pipeline, state), "getAllComputedVertices", "", NoId,
         aggregate["getAllComputedVertices"])

GetVertexOffsets ==
  Called(getVertexOffsets(Pipeline, state), "getVertexOffsets", "", NoId,
         aggregate["getVertexOffsets"])

GetVerticesStats ==
  Called(getVerticesStats(Pipeline, state), "getVerticesStats", "", NoId,
         aggregate["getVerticesStats"])

GetSliderColors(layerId) ==
  Called(getSliderColors(Pipeline, layerId, state), "getSliderColors", "", layerId, Null)

\* The cache on its own: the reads and writes of the raw stage (let vertices =
\* cache.get(key), and cache.set(key, vertices) after a miss), for the keys and
\* vertex lists of a layer of some type.  last.uses is the history of uses, the
\* most recent first: the keys written or read with a hit; last.puts the keys
\* in the order of their writes, the most recent first; last.pre the cache
\* before the operation.
CacheOps == {"cache.get", "cache.set"}
UsesOf == IF last.op \in CacheOps THEN last.uses ELSE <<>>
PutsOf == IF last.op \in CacheOps THEN last.puts ELSE <<>>
Used(uses, key) == <<key>> \o SelectSeq(uses, LAMBDA k : k # key)
ShapeOf(layerId, type) ==
  [shape |-> NewLayer(Ref("store", layerId, 0), layerId, type), machine |-> Null]

CacheOp(op, key, c, value, uses, puts) ==
  /\ cache' = c
  /\ last' = [op |-> op, fn |-> "", layerId |-> NoId, err |-> FALSE, result |-> value,
              gen |-> <<>>, ran |-> <<>>, pre |-> cache, key |-> key,
              uses |-> uses, puts |-> puts]
  /\ UNCHANGED <<state, cachedSelectors, aggregate, edits, hist, genCalls>>

\* cache.get(getCacheKey(st))
CacheGetOp(st) ==
  CacheOp("cache.get", getCacheKey(st), CacheGet(cache, getCacheKey(st)).cache,
          CacheGet(cache, getCacheKey(st)).value,
          IF CacheHas(cache, getCacheKey(st)) THEN Used(UsesOf, getCacheKey(st)) ELSE UsesOf,
          PutsOf)

\* cache.set(getCacheKey(st), getVertices(st)), after a miss
CacheSetOp(st) ==
  /\ ~CacheHas(cache, getCacheKey(st))
  /\ CacheOp("cache.set", getCacheKey(st),
             CacheSet(cache, getCacheKey(st),
                      NewArray(Ref("makeGetLayerVertices", st.shape.id, 1), getVertices(st))),
             NewArray(Ref("makeGetLayerVertices", st.shape.id, 1), getVertices(st)),
             Used(UsesOf, getCacheKey(st)), Used(PutsOf, getCacheKey(st)))

\* ------------------------------------------------- the store's mutations
\* One reducer run: the snapshot and every object on the path to the change
\* are new objects, everything else keeps its identity.
Dispatch(kind, layerId, layers, machine, order) ==
  /\ edits < MaxEdits
  /\ edits' = edits + 1
  /\ state' = [ref |-> Ref("store", "state", edits + 1), layers |-> layers,
               machine |-> machine, visibleLayerOrder |-> order,
               preview |-> state.preview]
  /\ hist' = [edit |-> kind, layerId |-> layerId, prev |-> state.ref]
  /\ last' = [op |-> "edit", fn |-> "", layerId |-> NoId, err |-> FALSE, result |-> Null,
              gen |-> <<>>, ran |-> <<>>, pre |-> Null]
  /\ UNCHANGED <<cache, cachedSelectors, aggregate, genCalls>>

UpdateLayer(kind, layerId, layer) ==
  /\ Content(layer) # Content(state.layers.map[layerId])
  /\ Dispatch(kind, layerId,
              [ref |-> Ref("store", "layers", edits + 1),
               map |-> [state.layers.map EXCEPT
                          ![layerId] = [layer EXCEPT !.ref = Ref("store", layerId, edits + 1)]]],
              state.machine, state.visibleLayerOrder)

SetShape(layerId, type) ==
  UpdateLayer("shape", layerId,
              [state.layers.map[layerId] EXCEPT !.type = type,
                 !.shouldCache = shouldCacheOf(type), !.usesMachine = usesMachineOf(type)])

Move(layerId, offsetX) ==
  UpdateLayer("move", layerId, [state.layers.map[layerId] EXCEPT !.offsetX = offsetX])

SetDragging(layerId, dragging) ==
  UpdateLayer("dragging", layerId, [state.layers.map[layerId] EXCEPT !.dragging = dragging])

SetCircular(layerId, circular) ==
  UpdateLayer("circular", layerId, [state.layers.map[layerId] EXCEPT !.circular = circular])

SetEffect(layerId, effect) ==
  UpdateLayer("effect", layerId, [state.layers.map[layerId] EXCEPT !.effect = effect])

SetConnectionMethod(layerId, method) ==
  UpdateLayer("connectionMethod", layerId,
              [state.layers.map[layerId] EXCEPT !.connectionMethod = method])

SetMachine(homing, size) ==
  /\ <<homing, size>> # <<state.machine.homing, state.machine.size>>
  /\ Dispatch("machine", NoId, state.layers,
              [ref |-> Ref("store", "machine", edits + 1), homing |-> homing, size |-> size],
              state.visibleLayerOrder)

SetVisibleLayerOrder(order) ==
  /\ order # state.visibleLayerOrder
  /\ Dispatch("order", NoId, state.layers, state.machine, order)

\* the preview slider moved to value (percent of the path)
SetSliderValue(value) ==
  /\ value # state.preview.sliderValue
  /\ edits < MaxEdits
  /\ edits' = edits + 1
  /\ state' = [state EXCEPT !.ref = Ref("store", "state", edits + 1),
                            !.preview = [ref |-> Ref("store", "preview", edits + 1),
                                         sliderValue |-> value]]
  /\ hist' = [edit |-> "preview", layerId |-> NoId, prev |-> state.ref]
  /\ last' = [op |-> "edit", fn |-> "", layerId |-> NoId, err |-> FALSE, result |-> Null,
              gen |-> <<>>, ran |-> <<>>, pre |-> Null]
  /\ UNCHANGED <<cache, cachedSelectors, aggregate, genCalls>>

\* visible orders of the layers
Orders == {<<"A", "B">>, <<"B", "A">>}
StackedOrders == {<<"A", "B">>, <<"A", "B", "C">>}
ChainOrders == {<<"A", "B">>, <<"A", "B", "C", "E">>, <<"A", "B", "E", "C">>}

\* ------------------------------------------------------ specifications
\* the raw stage and the cache: one layer edited, two layers evaluated
NextCache ==
  \/ \E type \in {"polygon", "point", "fractal"} : SetShape("A", type)
  \/ \E offsetX \in {0, 1} : Move("A", offsetX)
  \/ \E size \in {4, 6} : SetMachine(FALSE, size)
  \/ \E layerId \in {"A", "C"} : Evaluate("makeGetLayerVertices", layerId)

SpecCache == Init /\ [][NextCache]_vars

\* the registry: the selectors of one layer asked for and called in any order
NextRegistry ==
  \/ \E fn \in Fns : GetCachedSelector(fn, "A")
  \/ \E fn \in StageFns : Evaluate(fn, "A")
  \/ \E offsetX \in {0, 1} : Move("A", offsetX)

SpecRegistry == Init /\ [][NextRegistry]_vars

\* the three stages of one layer while the rest of the drawing is edited
NextMemo ==
  \/ \E dragging \in BOOLEAN : SetDragging("B", dragging)
  \/ \E order \in Orders : SetVisibleLayerOrder(order)
  \/ \E fn \in StageFns : Evaluate(fn, "A")

SpecMemo == Init /\ [][NextMemo]_vars

\* the computed stage of two layers while the connection between them is edited
NextStitch ==
  \/ \E method \in ConnectionMethods : SetConnectionMethod("A", method)
  \/ \E dragging \in BOOLEAN : SetDragging("B", dragging)
  \/ \E order \in Orders : SetVisibleLayerOrder(order)
  \/ \E layerId \in {"A", "B"} : Evaluate("makeGetComputedVertices", layerId)

SpecStitch == Init /\ [][NextStitch]_vars

\* the aggregate views over a drawing whose visible layers and machine change
NextStats ==
  \/ \E order \in StackedOrders : SetVisibleLayerOrder(order)
  \/ \E homing \in BOOLEAN : SetMachine(homing, 4)
  \/ GetAllComputedVertices
  \/ GetVertexOffsets
  \/ GetVerticesStats

SpecStats == Init /\ [][NextStats]_vars

\* ---------------------------------------------------------------- claims
RawStage == "makeGetLayerVertices"
TransformedStage == "makeGetTransformedVertices"
ComputedStage == "makeGetComputedVertices"

\* the cache key the raw stage of layerId computes on the current snapshot
KeyOf(layerId) ==
  getCacheKey([shape |-> state.layers.map[layerId],
               machine |-> makeGetLayerMachine(state, layerId)])

\* the step is an evaluation of stage fn for layerId that returned
Evaluated(fn, layerId) ==
  /\ last'.op = "evaluate"
  /\ last'.fn = fn
  /\ last'.layerId = layerId
  /\ ~last'.err

\* C1 (as stated): for a cacheable layer the shape generator runs once in total
\* for a cache key, whatever raw-stage evaluations for other keys happen in
\* between two evaluations with that key.
C1_GeneratorOncePerKey ==
  \A key \in DOMAIN genCalls : key.shape.shouldCache => genCalls[key] = 1

\* C1 (amended): a raw-stage evaluation of a cacheable layer whose key still has
\* its entry in the cache returns the stored vertex list itself and does not
\* invoke the shape generator; evaluations for other keys in between matter
\* only by evicting that entry.
C1_StoredWhileCached ==
  [][\A layerId \in LayerIds :
       (/\ Evaluated(RawStage, layerId)
        /\ state.layers.map[layerId].shouldCache
        /\ CacheHas(cache, KeyOf(layerId)))
       => /\ last'.result = cache[CachePos(cache, KeyOf(layerId))].value
          /\ last'.gen = <<>>
          /\ genCalls' = genCalls]_vars

\* C1 witness: the key of layer A was generated once, another key was evaluated
\* in between, and the raw stage ran again for A and took the stored list
C1_Witness ==
  /\ last.op = "evaluate" /\ last.fn = RawStage /\ last.layerId = "A" /\ ~last.err
  /\ state.layers.map["A"].shouldCache
  /\ \E i \in 1..Len(last.ran) : last.ran[i].fn = RawStage /\ last.ran[i].layerId = "A"
  /\ last.gen = <<>>
  /\ KeyOf("A") \in DOMAIN genCalls /\ genCalls[KeyOf("A")] = 1
  /\ \E key \in DOMAIN genCalls : key # KeyOf("A") /\ key.shape.id = "A"

\* C2: for a layer whose shape does not use the machine, a raw-stage evaluation
\* on a snapshot that differs from the previously evaluated one only in the
\* machine sees a null machine input before and after, computes the same cache
\* key, and does not invoke the shape generator again.
C2_MachineEditIgnored ==
  [][\A layerId \in LayerIds :
       (/\ Evaluated(RawStage, layerId)
        /\ ~state.layers.map[layerId].usesMachine
        /\ hist.edit = "machine"
        /\ HasSelector(cachedSelectors, RawStage, layerId)
        /\ cachedSelectors[RawStage][layerId].state = hist.prev)
       => /\ cachedSelectors[RawStage][layerId].args.machine = Null
          /\ cachedSelectors'[RawStage][layerId].args.machine = Null
          /\ getCacheKey([shape |-> cachedSelectors[RawStage][layerId].args.layer,
                          machine |-> cachedSelectors[RawStage][layerId].args.machine])
             = getCacheKey([shape |-> cachedSelectors'[RawStage][layerId].args.layer,
                            machine |-> cachedSelectors'[RawStage][layerId].args.machine])
          /\ last'.gen = <<>>
          /\ last'.result = cachedSelectors[RawStage][layerId].result]_vars

\* C2 witness: layer A, not using the machine, was evaluated before and after an
\* edit of the machine alone
C2_Witness ==
  /\ last.op = "evaluate" /\ last.fn = RawStage /\ last.layerId = "A" /\ ~last.err
  /\ ~state.layers.map["A"].usesMachine
  /\ hist.edit = "machine"
  /\ last.pre # Null /\ last.pre.state = hist.prev
  /\ cachedSelectors[RawStage]["A"].state = state.ref
  /\ cachedSelectors[RawStage]["A"].args.machine = Null
  /\ last.gen = <<>>

\* C3: asking for the selector of a (stage, layer) pair any number of times, in
\* any order with other pairs, creates one node for the pair: a node once in the
\* registry stays the same node, and every request returns the registered node.
C3_OneNodePerPair ==
  [][/\ \A fn \in DOMAIN cachedSelectors : \A layerId \in DOMAIN cachedSelectors[fn] :
          /\ HasSelector(cachedSelectors', fn, layerId)
          /\ cachedSelectors'[fn][layerId].inst = cachedSelectors[fn][layerId].inst
     /\ last'.op = "getCachedSelector"
        => /\ last'.result = cachedSelectors'[last'.fn][last'.layerId]
           /\ last'.pre # Null => last'.result.inst = last'.pre.inst]_vars

\* C3 witness: the computed-stage selector of layer A was requested again after
\* it, and the selectors of its inputs, had been created and used
C3_Witness ==
  /\ last.op = "getCachedSelector" /\ last.fn = ComputedStage /\ last.layerId = "A"
  /\ last.pre # Null
  /\ last.pre.runs > 0
  /\ HasSelector(cachedSelectors, ComputedStage, "B")

\* the values the input selectors of stage fn return for layerId on the
\* current snapshot; Null when one of them throws
InputsOf(fn, layerId) ==
  CASE fn = RawStage ->
         [layer |-> makeGetLayer(state, layerId),
          machine |-> makeGetLayerMachine(state, layerId)]
    [] fn = TransformedStage ->
         IF makeGetLayerVertices(Pipeline, layerId, state).err THEN Null
         ELSE [vertices |-> makeGetLayerVertices(Pipeline, layerId, state).v,
               layer |-> makeGetLayer(state, layerId),
               effects |-> makeGetEffects(state, layerId)]
    [] OTHER ->
         IF makeGetTransformedVertices(Pipeline, layerId, state).err THEN Null
         ELSE [vertices |-> makeGetTransformedVertices(Pipeline, layerId, state).v,
               layerIndex |-> makeGetLayerIndex(state, layerId),
               nextLayerId |-> makeGetNextLayerId(state, layerId),
               numLayers |-> getNumVisibleLayers(state),
               layers |-> getLayersById(state),
               machine |-> getMachine(state)]

\* the result function of stage fn ran for layerId during the last call
RanIn(ran, fn, layerId) ==
  \E i \in 1..Len(ran) : ran[i].fn = fn /\ ran[i].layerId = layerId

\* C4: evaluating the raw, transformed or computed stage of a layer when the
\* values of all its declared inputs are the ones of its previous evaluation
\* returns the previously produced output and does not run the stage body.
C4_SameInputsNoRerun ==
  [][\A fn \in StageFns, layerId \in LayerIds :
       (/\ Evaluated(fn, layerId)
        /\ HasSelector(cachedSelectors, fn, layerId)
        /\ cachedSelectors[fn][layerId].args # Null
        /\ InputsOf(fn, layerId) = cachedSelectors[fn][layerId].args)
       => /\ last'.result = cachedSelectors[fn][layerId].result
          /\ cachedSelectors'[fn][layerId].runs = cachedSelectors[fn][layerId].runs
          /\ ~RanIn(last'.ran, fn, layerId)]_vars

\* C4 witness: the computed stage of A was evaluated on a new snapshot with the
\* inputs of its previous evaluation, and returned the previous output
C4_Witness ==
  /\ last.op = "evaluate" /\ last.fn = ComputedStage /\ last.layerId = "A" /\ ~last.err
  /\ last.pre # Null /\ last.pre.args # Null
  /\ last.pre.state # state.ref
  /\ cachedSelectors[ComputedStage]["A"].args = last.pre.args
  /\ cachedSelectors[ComputedStage]["A"].runs = last.pre.runs
  /\ last.result = last.pre.result

\* the runs of the computed stage's body, during the last call, for a visible
\* layer followed by a next visible layer that is not dragging and whose
\* computed path is not empty
Stitches ==
  {i \in 1..Len(last.ran) :
     /\ last.ran[i].fn = ComputedStage
     /\ last.ran[i].args.layerIndex >= 0
     /\ last.ran[i].args.layerIndex < last.ran[i].args.numLayers - 1
     /\ last.ran[i].args.nextLayerId \in DOMAIN last.ran[i].args.layers.map
     /\ ~last.ran[i].args.layers.map[last.ran[i].args.nextLayerId].dragging
     /\ HasSelector(cachedSelectors, ComputedStage, last.ran[i].args.nextLayerId)
     /\ cachedSelectors[ComputedStage][last.ran[i].args.nextLayerId].result # Null
     /\ cachedSelectors[ComputedStage][last.ran[i].args.nextLayerId].result.v # <<>>}

StitchMethod(i) == last.ran[i].args.layers.map[last.ran[i].layerId].connectionMethod
\* A's transformed vertices, and the first vertex of B's computed path
StitchFrom(i) == last.ran[i].args.vertices.v
StitchTo(i) == VFirst(cachedSelectors[ComputedStage][last.ran[i].args.nextLayerId].result.v)

\* path is the vertices of from followed by the vertices of tail
EndsWith(path, from, tail) ==
  /\ VLen(path) = VLen(from) + Len(tail)
  /\ \A k \in 0..(VLen(from) - 1) : VAt(path, k) = VAt(from, k)
  /\ \A k \in 1..Len(tail) : VAt(path, VLen(from) + k - 1) = tail[k]

\* C5: for consecutive visible layers A then B, A not connecting along the
\* perimeter, B not dragging and B's computed path not empty, A's computed path
\* before polishing is A's transformed vertices followed by exactly one vertex,
\* the first vertex of B's computed path.
C5_OneStitchVertex ==
  \A i \in Stitches :
    StitchMethod(i) # "along perimeter"
    => EndsWith(last.ran[i].connected, StitchFrom(i), <<StitchTo(i)>>)

\* C5 witness: B, first in the visible order, was connected to the first vertex
\* of A's four-vertex path
C5_Witness ==
  \E i \in Stitches :
    /\ last.ran[i].layerId = "B"
    /\ last.ran[i].args.nextLayerId = "A"
    /\ StitchMethod(i) = "none"
    /\ VLen(cachedSelectors[ComputedStage]["A"].result.v) = 4
    /\ VLen(last.ran[i].connected) = VLen(StitchFrom(i)) + 1

\* the bridge the perimeter connection of run i appends
BridgeOf(i) ==
  <<nearestPerimeterVertex(last.ran[i].args.machine, VLast(StitchFrom(i)))>>
  \o tracePerimeter(last.ran[i].args.machine,
                    nearestPerimeterVertex(last.ran[i].args.machine, VLast(StitchFrom(i))),
                    nearestPerimeterVertex(last.ran[i].args.machine, StitchTo(i)))
  \o <<nearestPerimeterVertex(last.ran[i].args.machine, StitchTo(i)), StitchTo(i)>>

ComputedOf(layerId) == cachedSelectors[ComputedStage][layerId].result.v

RECURSIVE SumOfLengths(_)
SumOfLengths(ids) ==
  IF ids = <<>> THEN 0 ELSE VLen(ComputedOf(Head(ids))) + SumOfLengths(Tail(ids))

\* the last call was the aggregate view op, and it returned
Viewed(op) == last.op = op /\ ~last.err

\* C7: for consecutive layers current, next of the visible order,
\* getVertexOffsets yields offsets[next] = offsets[current] +
\* len(computed[current]) + 1, and the first visible layer has offset 0.
C7_OffsetsStep ==
  Viewed("getVertexOffsets")
  => /\ DOMAIN last.result.offsets = {state.visibleLayerOrder[i] :
                                        i \in 1..Len(state.visibleLayerOrder)}
     /\ last.result.offsets[state.visibleLayerOrder[1]] = 0
     /\ \A i \in 1..(Len(state.visibleLayerOrder) - 1) :
          last.result.offsets[state.visibleLayerOrder[i + 1]]
          = last.result.offsets[state.visibleLayerOrder[i]]
            + VLen(ComputedOf(state.visibleLayerOrder[i])) + 1

\* C7 witness: the offsets of three visible layers were computed
C7_Witness ==
  /\ Viewed("getVertexOffsets")
  /\ Len(state.visibleLayerOrder) = 3
  /\ last.result.offsets[state.visibleLayerOrder[3]] > 0

\* the example: the four-vertex square A connected by one vertex to the single
\* point B, transformation and polishing the identity
Example ==
  /\ state.visibleLayerOrder = <<"A", "B">>
  /\ state.layers.map["A"].type = "polygon" /\ state.layers.map["B"].type = "point"
  /\ state.layers.map["A"].connectionMethod = "none"
  /\ state.layers.map["A"].offsetX = 0 /\ state.layers.map["B"].offsetX = 0
  /\ ~state.layers.map["B"].dragging
  /\ ~state.machine.homing

ExamplePath == <<V(0, 0), V(1, 0), V(1, 1), V(0, 1), V(5, 5), V(5, 5)>>

\* C8 (as stated): offsets[layerId] is the index in the flattened path at which
\* the layer's computed vertices start; in the example offsets = {A: 0, B: 5}.
C8_OffsetsAreStartIndexes ==
  Viewed("getVertexOffsets")
  => /\ \A i \in 1..Len(state.visibleLayerOrder) :
          last.result.offsets[state.visibleLayerOrder[i]]
          = SumOfLengths(SubSeq(state.visibleLayerOrder, 1, i - 1))
     /\ Example => last.result.offsets = [id \in {"A", "B"} |-> IF id = "A" THEN 0 ELSE 5]

\* C9: the flattened path is the concatenation, in visible order, of the
\* visible layers' computed paths, and numPoints is the sum of their lengths;
\* in the example the path is [(0,0),(1,0),(1,1),(0,1),(5,5),(5,5)], 6 points.
C9_FlattenedPath ==
  /\ Viewed("getAllComputedVertices")
     => /\ VLen(last.result.v) = SumOfLengths(state.visibleLayerOrder)
        /\ \A i \in 1..Len(state.visibleLayerOrder) :
             \A k \in 0..(VLen(ComputedOf(state.visibleLayerOrder[i])) - 1) :
               VAt(last.result.v,
                   SumOfLengths(SubSeq(state.visibleLayerOrder, 1, i - 1)) + k)
               = VAt(ComputedOf(state.visibleLayerOrder[i]), k)
        /\ Example => /\ VLen(last.result.v) = 6
                      /\ \A k \in 1..6 : VAt(last.result.v, k - 1) = ExamplePath[k]
  /\ Viewed("getVerticesStats")
     => /\ last.result.numPoints = SumOfLengths(state.visibleLayerOrder)
        /\ Example => last.result.numPoints = 6

\* C9 witness: the flattened path of the example was computed, after the path
\* of another visible order
C9_Witness ==
  /\ Viewed("getAllComputedVertices")
  /\ Example
  /\ edits > 0
  /\ last.pre.result # Null
  /\ last.pre.result # last.result
  /\ VLen(last.result.v) = 6

\* the flattened path getVerticesStats was computed from is the example's
StatsOfExample ==
  /\ Viewed("getVerticesStats")
  /\ aggregate["getVerticesStats"].args.vertices = aggregate["getAllComputedVertices"].result
  /\ VLen(aggregate["getAllComputedVertices"].result.v) = 6
  /\ \A k \in 1..6 : VAt(aggregate["getAllComputedVertices"].result.v, k - 1) = ExamplePath[k]

\* C10 (as stated): for the example flattened path getVerticesStats reports
\* distance = 8.
C10_DistanceEight == StatsOfExample => last.result.distance = 8

\* C10 (amended): for the example flattened path getVerticesStats reports
\* distance = 9, the floor of 3 + sqrt(41): the sum of the Euclidean distances
\* between consecutive vertices, floored to an integer.
C10_DistanceNine == StatsOfExample => last.result.distance = 9

\* C10 witness: the statistics of the example path were computed
C10_Witness == StatsOfExample /\ last.result.numPoints = 6

\* the slider gradient of a layer while the drawing is rearranged
NextSlider ==
  \/ SetVisibleLayerOrder(<<"B", "A">>)
  \/ SetDragging("A", TRUE)
  \/ \E value \in {0, 50} : SetSliderValue(value)
  \/ \E layerId \in {"A", "B"} : GetSliderColors(layerId)

SpecSlider == Init /\ [][NextSlider]_vars

\* start and end of the gradient of a visible layer on the current snapshot:
\* the resolver's bounds on the preview path, or, with the slider at 0, the
\* layer's offset and that offset plus the length of its preview vertices
RangeOf(layerId) ==
  IF state.preview.sliderValue > 0
  THEN getSliderBounds(aggregate["getAllPreviewVertices"].result.v, state.preview.sliderValue)
  ELSE [start |-> aggregate["getVertexOffsets"].result.offsets[layerId],
        end |-> aggregate["getVertexOffsets"].result.offsets[layerId]
                + VLen(cachedSelectors["makeGetPreviewVertices"][layerId].result.v)]

\* the gradient of a visible layer was computed by the last call
Graded ==
  /\ Viewed("getSliderColors")
  /\ \E i \in 1..Len(state.visibleLayerOrder) : state.visibleLayerOrder[i] = last.layerId

\* the example: slider value 0 and a layer occupying the indices [2, 6) of the
\* path (the dragged four-vertex layer A after the single point B)
GradientExample ==
  /\ Graded
  /\ last.layerId = "A"
  /\ state.preview.sliderValue = 0
  /\ RangeOf("A") = [start |-> 2, end |-> 6]

C12_LighterTowardStart ==
  Graded
  => \A i, j \in DOMAIN last.result.colors :
       i < j => last.result.colors[i].num * last.result.colors[j].den
                <= last.result.colors[j].num * last.result.colors[i].den

\* C12 (amended): for any two keys i < j the darkening applied at i is greater
\* than or equal to the darkening applied at j, and the color at i is not
\* lighter: the base color is at end, and the darkening grows by equal steps to
\* 3/8 at start.
C12_DarkerTowardStart ==
  Graded
  => /\ \A i, j \in DOMAIN last.result.colors :
          i < j => /\ last.result.colors[i].num * last.result.colors[j].den
                      >= last.result.colors[j].num * last.result.colors[i].den
                   /\ last.result.colors[i].hex <= last.result.colors[j].hex
     /\ RangeOf(last.layerId).start < RangeOf(last.layerId).end
        => /\ last.result.colors[RangeOf(last.layerId).end].num = 0
           /\ 8 * last.result.colors[RangeOf(last.layerId).start].num
              = 3 * last.result.colors[RangeOf(last.layerId).start].den

\* C12 witness: a gradient over at least three indexes was computed, its ends
\* of different colors
C12_Witness ==
  /\ Graded
  /\ Cardinality(DOMAIN last.result.colors) >= 3
  /\ \E i, j \in DOMAIN last.result.colors :
       i < j /\ last.result.colors[i].hex < last.result.colors[j].hex

\* C13: after any sequence of cache reads and writes the sum of the lengths of
\* the stored vertex lists does not exceed the budget of 500000 vertices,
\* however many entries are stored.
C13_WithinBudget == CacheLength(cache) <= CacheMax

\* C13 witness: a second vertex list of more than half the budget was stored,
\* and the first one is gone
C13_Witness ==
  /\ cache # <<>>
  /\ 2 * VLen(cache[1].value.v) > CacheMax
  /\ \E key \in DOMAIN genCalls :
       /\ key.shape.shouldCache
       /\ ~CacheHas(cache, key)
       /\ 2 * VLen(getVertices(key)) > CacheMax

\* the cache read and written for the vertex lists of two layers, small and large
NextLru ==
  \/ \E layerId \in {"A", "B"}, type \in {"polygon", "fractal"} :
       CacheGetOp(ShapeOf(layerId, type))
  \/ \E layerId \in {"A", "B"}, type \in {"polygon", "fractal"} :
       CacheSetOp(ShapeOf(layerId, type))

SpecLru == Init /\ [][NextLru]_vars

\* the position of key in a sequence of keys
PosIn(keys, key) == CHOOSE i \in 1..Len(keys) : keys[i] = key
KeysOf(c) == {c[i].key : i \in 1..Len(c)}
LengthOf(c, key) == VLen(c[CachePos(c, key)].value.v)
\* the entries a write of key dropped, and the older entries it kept
Evicted(c, d, key) == (KeysOf(c) \ KeysOf(d)) \ {key}
Kept(c, d, key) == (KeysOf(c) \cap KeysOf(d)) \ {key}

\* C14: a write that would exceed the budget evicts entries in least recently
\* used order until the new entry fits, and stores the new entry; a write and a
\* read that hits both count as a use: every entry kept was used after every
\* entry evicted, and no more entries are evicted than needed.  A read evicts
\* and changes nothing.
C14_LeastRecentlyUsedFirst ==
  [][/\ last'.op = "cache.set"
        => /\ cache'[1].key = last'.key
           /\ CacheLength(cache') <= CacheMax
           /\ \A x \in Evicted(cache, cache', last'.key), y \in Kept(cache, cache', last'.key) :
                PosIn(UsesOf, y) < PosIn(UsesOf, x)
           /\ \A x \in Evicted(cache, cache', last'.key) :
                (\A z \in Evicted(cache, cache', last'.key) :
                   PosIn(UsesOf, x) <= PosIn(UsesOf, z))
                => CacheLength(cache') + LengthOf(cache, x) > CacheMax
     /\ last'.op = "cache.get"
        => /\ KeysOf(cache') = KeysOf(cache)
           /\ \A key \in KeysOf(cache) :
                cache'[CachePos(cache', key)].value = cache[CachePos(cache, key)].value
           /\ CacheHas(cache, last'.key)
              => last'.result = cache[CachePos(cache, last'.key)].value]_vars

\* C14 witness: a write evicted an entry and kept one that was written before
\* the evicted one and read after it
C14_Witness ==
  /\ last.op = "cache.set"
  /\ \E x \in Evicted(last.pre, cache, last.key), y \in Kept(last.pre, cache, last.key) :
       /\ PosIn(last.puts, y) > PosIn(last.puts, x)
       /\ PosIn(last.uses, y) < PosIn(last.uses, x)

\* the raw stage of a layer whose object may stop being serializable
NextKey ==
  \/ \E circular \in BOOLEAN : SetCircular("A", circular)
  \/ \E type \in {"polygon", "point"} : SetShape("A", type)
  \/ \E offsetX \in {0, 1} : Move("A", offsetX)
  \/ Evaluate("makeGetLayerVertices", "A")

SpecKey == Init /\ [][NextKey]_vars

\* the last call evaluated the raw stage of a cacheable layer whose
\* {shape, machine} snapshot cannot be serialized
Unserializable ==
  /\ last.op = "evaluate" /\ last.fn = RawStage
  /\ state.layers.map[last.layerId].shouldCache
  /\ state.layers.map[last.layerId].circular

\* C15 (as stated): when the {shape, machine} snapshot of a cacheable layer
\* cannot be serialized into a cache key, the raw stage does not fail: it
\* invokes the shape generator without reading or writing the cache and returns
\* the generated vertices.
C15_FallsBackToGeneration ==
  Unserializable
  => /\ ~last.err
     /\ Len(last.gen) = 1
     /\ last.result.v = getVertices([shape |-> state.layers.map[last.layerId],
                                     machine |-> makeGetLayerMachine(state, last.layerId)])

\* the computed stage of A while its successor is dragged, emptied by an
\* effect, moved before it, or replaced in the order by an id without a layer
NextBridge ==
  \/ \E dragging \in BOOLEAN : SetDragging("B", dragging)
  \/ \E effect \in BOOLEAN : SetEffect("B", effect)
  \/ \E order \in Orders \cup {<<"A", "D">>} : SetVisibleLayerOrder(order)
  \/ \E method \in {"none", "along perimeter"} : SetConnectionMethod("A", method)
  \/ Evaluate("makeGetComputedVertices", "A")

SpecBridge == Init /\ [][NextBridge]_vars

\* the runs of a computed stage's body, during the call this step makes, of a
\* layer that is last in the visible order, or whose next layer is not in the
\* layer mapping, or is dragging, or has an empty computed path
Unbridged ==
  {i \in 1..Len(last'.ran) :
     /\ last'.ran[i].fn = ComputedStage
     /\ \/ last'.ran[i].args.layerIndex = last'.ran[i].args.numLayers - 1
        \/ last'.ran[i].args.nextLayerId \notin DOMAIN last'.ran[i].args.layers.map
        \/ last'.ran[i].args.layers.map[last'.ran[i].args.nextLayerId].dragging
        \/ /\ HasSelector(cachedSelectors', ComputedStage, last'.ran[i].args.nextLayerId)
           /\ cachedSelectors'[ComputedStage][last'.ran[i].args.nextLayerId].result # Null
           /\ cachedSelectors'[ComputedStage][last'.ran[i].args.nextLayerId].result.v = <<>>}

\* C16: the computed stage of a layer adds no bridge or stitch vertex (its
\* output before polishing is its transformed vertices) when the layer is last
\* in the visible order, or the next layer is not in the layer mapping, or is
\* dragging, or has an empty computed path; and the current layer does not
\* evaluate the computed stage of a next layer that is dragging.
C16_NoBridge ==
  [][/\ \A i \in Unbridged : last'.ran[i].connected = last'.ran[i].args.vertices.v
     /\ \A layerId \in LayerIds :
          (/\ Evaluated(ComputedStage, layerId)
           /\ makeGetNextLayerId(state, layerId) \in LayerIds
           /\ state.layers.map[makeGetNextLayerId(state, layerId)].dragging)
          => MemoOf(cachedSelectors', ComputedStage, makeGetNextLayerId(state, layerId))
             = MemoOf(cachedSelectors, ComputedStage, makeGetNextLayerId(state, layerId))]_vars

\* C16 witness: A, connected to B before, was computed again with B dragging,
\* without a vertex of B and without evaluating B
C16_Witness ==
  /\ last.op = "evaluate" /\ last.fn = ComputedStage /\ last.layerId = "A" /\ ~last.err
  /\ state.visibleLayerOrder = <<"A", "B">>
  /\ state.layers.map["B"].dragging
  /\ RanIn(last.ran, ComputedStage, "A")
  /\ ~RanIn(last.ran, ComputedStage, "B")
  /\ last.pre # Null /\ last.pre.result # Null
  /\ VLen(last.pre.result.v) = 5
  /\ VLen(last.result.v) = 4

\* the raw stage of a cached layer and of a layer that is not cached, the
\* latter dragged, given an effect and moved
NextBypass ==
  \/ \E dragging \in BOOLEAN : SetDragging("B", dragging)
  \/ \E effect \in BOOLEAN : SetEffect("B", effect)
  \/ \E offsetX \in {0, 1} : Move("B", offsetX)
  \/ \E layerId \in {"A", "B"} : Evaluate("makeGetLayerVertices", layerId)

SpecBypass == Init /\ [][NextBypass]_vars

\* C17: for a layer with shouldCache false an evaluation of the raw stage leaves
\* the cache, its contents and its recency order, as it was; when its body runs
\* it returns the empty list without invoking the generator if the layer is not
\* dragging and has an active effect, and else what the generator, invoked
\* once, returns.
C17_CacheBypassed ==
  [][\A layerId \in LayerIds :
       (Evaluated(RawStage, layerId) /\ ~state.layers.map[layerId].shouldCache)
       => /\ cache' = cache
          /\ RanIn(last'.ran, RawStage, layerId)
             => IF ~state.layers.map[layerId].dragging /\ state.layers.map[layerId].effect
                THEN last'.result.v = <<>> /\ last'.gen = <<>>
                ELSE /\ Len(last'.gen) = 1
                     /\ last'.result.v
                        = getVertices([shape |-> state.layers.map[layerId],
                                       machine |-> makeGetLayerMachine(state, layerId)])
          /\ ~RanIn(last'.ran, RawStage, layerId)
             => last'.gen = <<>> /\ last'.result = last'.pre.result]_vars

\* C17 witness: with a vertex list in the cache, the layer B, not cached and
\* generated before, was given an effect and evaluated to the empty list
C17_Witness ==
  /\ last.op = "evaluate" /\ last.fn = RawStage /\ last.layerId = "B" /\ ~last.err
  /\ ~state.layers.map["B"].shouldCache
  /\ state.layers.map["B"].effect /\ ~state.layers.map["B"].dragging
  /\ RanIn(last.ran, RawStage, "B")
  /\ last.result.v = <<>>
  /\ cache # <<>>
  /\ \E key \in DOMAIN genCalls : key.shape.id = "B"

\* a chain of layers: the layers after B reordered and B emptied by an effect
\* while the computed stages and the flattened path are evaluated
NextChain ==
  \/ \E effect \in BOOLEAN : SetEffect("B", effect)
  \/ \E order \in ChainOrders : SetVisibleLayerOrder(order)
  \/ Evaluate("makeGetComputedVertices", "A")
  \/ GetAllComputedVertices

SpecChain == Init /\ [][NextChain]_vars

\* the runs of computed-stage bodies during a call, in the order they returned:
\* a nested lookup returns before the run that made it
ComputedRuns(ran) == SelectSeq(ran, LAMBDA r : r.fn = ComputedStage)
VisibleIndex(layerId) == IndexOf(state.visibleLayerOrder, layerId)

\* C18: the computed-stage bodies that run while the computed stage of a
\* visible layer is evaluated form one chain: each was looked up by the run
\* that returned after it, from a layer at visible index i < numLayers - 1 to
\* the layer at index i + 1; so no layer runs twice and there are at most as
\* many runs as visible layers.
C18_ForwardChain ==
  [][\A layerId \in LayerIds :
       (Evaluated(ComputedStage, layerId) /\ VisibleIndex(layerId) >= 0)
       => LET runs == ComputedRuns(last'.ran)
          IN /\ ~last'.err
             /\ Len(runs) <= Len(state.visibleLayerOrder)
             /\ \A i, j \in 1..Len(runs) : runs[i].layerId = runs[j].layerId => i = j
             /\ \A i \in 1..Len(runs) - 1 :
                  /\ VisibleIndex(runs[i + 1].layerId) < Len(state.visibleLayerOrder) - 1
                  /\ VisibleIndex(runs[i].layerId) = VisibleIndex(runs[i + 1].layerId) + 1]_vars

\* C18 witness: the computed stage of A, first of four visible layers, ran the
\* bodies of all four, the last layer's first
C18_Witness ==
  /\ last.op = "evaluate" /\ last.fn = ComputedStage /\ last.layerId = "A" /\ ~last.err
  /\ state.visibleLayerOrder = <<"A", "B", "C", "E">>
  /\ Len(ComputedRuns(last.ran)) = 4
  /\ ComputedRuns(last.ran)[1].layerId = "E"
  /\ ComputedRuns(last.ran)[4].layerId = "A"

\* how often the computed-stage body of layerId ran during a call
ComputedRunsOf(ran, layerId) ==
  Len(SelectSeq(ran, LAMBDA r : r.fn = ComputedStage /\ r.layerId = layerId))

\* C20: during one evaluation of the flattened path the computed-stage body of
\* each layer runs at most once, although the layer's selector is called by the
\* stitch lookup of the preceding layer, on the rebuilt {layers, machine}, and
\* by the aggregate view, on the snapshot; both are given the same array.
C20_BodyRunsOnce ==
  [][Viewed("getAllComputedVertices")'
     => /\ \A layerId \in LayerIds : ComputedRunsOf(last'.ran, layerId) <= 1
        /\ \A i \in 1..Len(last'.ran) :
             last'.ran[i].fn = ComputedStage
             => cachedSelectors'[ComputedStage][last'.ran[i].layerId].result
                = last'.ran[i].result]_vars

\* C20 witness: the flattened path of four layers was evaluated from nothing;
\* the body of every layer ran once, B's, C's and E's inside the lookup of
\* their predecessor
C20_Witness ==
  /\ Viewed("getAllComputedVertices")
  /\ state.visibleLayerOrder = <<"A", "B", "C", "E">>
  /\ Len(ComputedRuns(last.ran)) = 4
  /\ \A layerId \in LayerIds : ComputedRunsOf(last.ran, layerId) = 1
  /\ ComputedRuns(last.ran)[1].layerId = "E"
  /\ cachedSelectors[ComputedStage]["B"].state = state.ref

\* The computed vertices of a layer computed from the snapshot alone, without
\* a selector memo or the cache: the raw stage (the cache returns what the
\* generator returned for the same {shape, machine}), the transformation, the
\* connection to the next layer and the polish.
ScratchRaw(layer, machine) ==
  IF ~layer.shouldCache /\ ~layer.dragging /\ layer.effect THEN <<>>
  ELSE getVertices([shape |-> layer,
                    machine |-> IF layer.usesMachine THEN machine ELSE Null])
ScratchTransformed(st, layerId) ==
  transformShapes(ScratchRaw(makeGetLayer(st, layerId), getMachine(st)),
                  makeGetLayer(st, layerId), makeGetEffects(st, layerId))
ScratchInputs(st, layerId) ==
  [layerIndex |-> makeGetLayerIndex(st, layerId), numLayers |-> getNumVisibleLayers(st),
   machine |-> getMachine(st)]
\* the rest of the computation, the next layer's computed vertices being n
ScratchConnected(st, layerId, n) ==
  IF VFirst(n) = Null THEN Polished(ScratchTransformed(st, layerId), ScratchInputs(st, layerId))
  ELSE Polished(Connect(ScratchTransformed(st, layerId), makeGetLayer(st, layerId),
                        getMachine(st), n),
                ScratchInputs(st, layerId))

RECURSIVE ScratchComputed(_, _)
ScratchComputed(st, layerId) ==
  IF /\ makeGetLayerIndex(st, layerId) < getNumVisibleLayers(st) - 1
     /\ HasNextLayer(getLayersById(st), makeGetNextLayerId(st, layerId))
  THEN ScratchConnected(st, layerId, ScratchComputed(st, makeGetNextLayerId(st, layerId)))
  ELSE Polished(ScratchTransformed(st, layerId), ScratchInputs(st, layerId))

RECURSIVE ScratchPath(_, _)
\* the flattened path computed from the snapshot alone
ScratchPath(st, ids) ==
  IF ids = <<>> THEN <<>>
  ELSE VConcat(ScratchComputed(st, Head(ids)), ScratchPath(st, Tail(ids)))

\* C19: whatever edits and evaluations came before, the computed vertices a
\* visible layer's selector returns, and the flattened path, equal what the
\* computation from the current snapshot alone gives.
C19_MemoEqualsScratch ==
  /\ (/\ last.op = "evaluate" /\ last.fn = ComputedStage /\ ~last.err
      /\ VisibleIndex(last.layerId) >= 0)
     => last.result.v = ScratchComputed(state, last.layerId)
  /\ Viewed("getAllComputedVertices")
     => last.result.v = ScratchPath(state, state.visibleLayerOrder)
====
